---- MODULE Spec2Model ----
(***************************************************************************)
(* A model of tgsend (src/tgsend.py): the Telegram class, which resolves   *)
(* a bot token and a chat id from arguments, environment and config files, *)
(* and its send operations, each of which builds one HTTP request.         *)
(*                                                                         *)
(* Python values are modelled as strings.  None is the string None below;  *)
(* a value is falsy when it is None or the empty string.                   *)
(***************************************************************************)
EXTENDS Integers, Sequences, FiniteSets, TLC

VARIABLES
    TOKEN,      \* module global read from TGSEND_TOKEN at import
    CHAT_ID,    \* module global read from TGSEND_CHATID at import
    disk,       \* config files: absolute path -> parsed sections
    phase,      \* "start" | "ready" (a dispatcher exists) | "failed" | "done" | "exit"
    tg,         \* the Telegram instance: token, chat_id, parse_mode
    last,       \* the last operation: its name, arguments and what it raised
    reads,      \* the config files the last operation read, in order
    handles,    \* the file handles that are open
    wire,       \* the HTTP exchanges of the last operation: request and reply
    returned,   \* the response the last operation returned (<<>> if none)
    caller,     \* who drives the dispatcher: "library" (one call, any arguments),
                \* "script" (several calls in a row), "main" (the command line)
    calls,      \* the number of send operations called so far
    verbose,    \* args.verbose of the command line
    stdout      \* what the command line has printed

vars == <<TOKEN, CHAT_ID, disk, phase, tg, last, reads, handles, wire, returned, caller, calls,
          verbose, stdout>>

-----------------------------------------------------------------------------
(* Python values *)

None == "[None]"

Truthy(v) == v # None /\ v # ""

\* Python's `a or b`
OrLast(a, b) == IF Truthy(b) THEN b ELSE a

Or(a, b) == IF Truthy(a) THEN a ELSE b

NoError == ""

-----------------------------------------------------------------------------
(* Module constants, src/tgsend.py:13-25 *)

BOT_API_URL == "https://api.telegram.org/bot"
LOCAL_CONFIG_FILE == "~/tgsend.conf"
CONFIG_FILE == "/etc/tgsend.conf"

NONE == "none"
MARKDOWN == "markdown"
MARKDOWN_V2 == "markdownV2"
HTML == "html"

ParseMode == {NONE, MARKDOWN, MARKDOWN_V2, HTML}

-----------------------------------------------------------------------------
(* The file system as the config reader sees it *)

CustomPath == "my.conf"

\* os.path.expanduser: a leading ~ becomes the home directory
expanduser(p) == IF p = LOCAL_CONFIG_FILE THEN "/home/user/tgsend.conf" ELSE p

\* os.path.abspath: a relative path is joined to the working directory
abspath(p) == IF p = CustomPath THEN "/cwd/my.conf" ELSE p

\* os.path.isfile
isfile(d, p) == p \in DOMAIN d

ConfigPaths == {abspath(expanduser(CustomPath)), expanduser(LOCAL_CONFIG_FILE), CONFIG_FILE}

\* A short tag for a path, used to give every file its own tokens and chat ids
PathTag(p) ==
    IF p = CONFIG_FILE THEN "etc"
    ELSE IF p = expanduser(LOCAL_CONFIG_FILE) THEN "home" ELSE "custom"

FileToken(p, s) == "tok-" \o PathTag(p) \o "-" \o s
FileChat(p, s) == "chat-" \o PathTag(p) \o "-" \o s

Shapes == {"both", "tokens", "chats", "workonly", "empty"}

\* The parsed content of the file at p: section name -> (key -> value)
FileContent(p, shape) ==
    CASE shape = "both" ->
            [Default |-> [BotToken |-> FileToken(p, "Default"), ChatID |-> FileChat(p, "Default")],
             Work    |-> [BotToken |-> FileToken(p, "Work"), ChatID |-> FileChat(p, "Work")]]
      [] shape = "tokens" ->
            [Default |-> [BotToken |-> FileToken(p, "Default")],
             Work    |-> [BotToken |-> FileToken(p, "Work")]]
      [] shape = "chats" ->
            [Default |-> [ChatID |-> FileChat(p, "Default")],
             Work    |-> [ChatID |-> FileChat(p, "Work")]]
      [] shape = "workonly" ->
            [Work    |-> [BotToken |-> FileToken(p, "Work"), ChatID |-> FileChat(p, "Work")]]
      [] OTHER -> << >>

\* Every file system: any subset of the candidate paths exists, each file of any shape
Disks(shapes) ==
    UNION { { [p \in E |-> FileContent(p, sh[p])] : sh \in [E -> shapes] } : E \in SUBSET ConfigPaths }

-----------------------------------------------------------------------------
(* Telegram._read_config, src/tgsend.py:72-91 *)

\* The "infer file" chain; None when no branch assigns config_file
InferFileSkipCustom(d, custom_config_file) ==
    IF isfile(d, expanduser(LOCAL_CONFIG_FILE)) THEN expanduser(LOCAL_CONFIG_FILE)
    ELSE IF isfile(d, CONFIG_FILE) THEN CONFIG_FILE
    ELSE IF Truthy(custom_config_file) /\ isfile(d, abspath(expanduser(custom_config_file)))
         THEN abspath(expanduser(custom_config_file))
    ELSE None

InferFile(d, custom_config_file) ==
    IF Truthy(custom_config_file) /\ isfile(d, abspath(expanduser(custom_config_file)))
    THEN abspath(expanduser(custom_config_file))
    ELSE IF isfile(d, expanduser(LOCAL_CONFIG_FILE)) THEN expanduser(LOCAL_CONFIG_FILE)
    ELSE IF isfile(d, CONFIG_FILE) THEN CONFIG_FILE
    ELSE None

\* What the else branch raises: the argument of its RuntimeError formats
\* config_file, a local no branch has assigned, so evaluating it raises first
NotFoundError == "UnboundLocalError"

\* The lookup of the named section in the parsed file
SectionLookupFallback(config, name) ==
    LET n == IF name \in DOMAIN config THEN name ELSE "Default" IN
    IF n \in DOMAIN config
    THEN [token |-> IF "BotToken" \in DOMAIN config[n] THEN config[n].BotToken ELSE None,
          chat  |-> IF "ChatID" \in DOMAIN config[n] THEN config[n].ChatID ELSE None]
    ELSE [token |-> None, chat |-> None]

SectionLookup(config, name) ==
    IF name \in DOMAIN config
    THEN [token |-> IF "BotToken" \in DOMAIN config[name] THEN config[name].BotToken ELSE None,
          chat  |-> IF "ChatID" \in DOMAIN config[name] THEN config[name].ChatID ELSE None]
    ELSE [token |-> None, chat |-> None]

read_config(d, name, custom_config_file) ==
    LET config_file == InferFile(d, custom_config_file) IN
    IF config_file = None
    THEN [raised |-> NotFoundError, read |-> << >>, token |-> None, chat |-> None]
    ELSE LET found == SectionLookup(d[config_file], name) IN
         [raised |-> NoError, read |-> <<config_file>>, token |-> found.token, chat |-> found.chat]

-----------------------------------------------------------------------------
(* Telegram.__init__, src/tgsend.py:49-62 *)

\* Line 50: explicit argument, else the environment value
FirstTokenEnvFirst(token, env) == Or(env, token)

FirstToken(token, env) == Or(token, env)

FirstChat(chat_id, env) == Or(chat_id, env)

\* The result of construction: the fields of the instance, what was raised,
\* and the config files read on the way
Telegram_init(d, envToken, envChat, token, chat_id, parse_mode) ==
    LET t0 == FirstToken(token, envToken)
        c0 == FirstChat(chat_id, envChat)
        r  == read_config(d, "Default", None)
        consulted == ~Truthy(t0)
        usable == consulted /\ r.raised = NoError
        t1 == IF usable /\ ~Truthy(t0) THEN r.token ELSE t0
        c1 == IF usable /\ ~Truthy(c0) THEN r.chat ELSE c0
    IN [token |-> t1, chat_id |-> c1, parse_mode |-> parse_mode,
        read |-> IF consulted THEN r.read ELSE << >>,
        raised |-> IF ~Truthy(t1) THEN "RuntimeError" ELSE NoError]

(* Telegram.load, src/tgsend.py:64-70 *)
Telegram_load(d, envToken, envChat, name, config_file) ==
    LET r == read_config(d, name, config_file) IN
    IF r.raised # NoError
    THEN [token |-> None, chat_id |-> None, parse_mode |-> None, read |-> r.read, raised |-> r.raised]
    ELSE IF ~Truthy(r.token)
    THEN [token |-> None, chat_id |-> None, parse_mode |-> None, read |-> r.read, raised |-> "RuntimeError"]
    ELSE LET i == Telegram_init(d, envToken, envChat, r.token, r.chat, MARKDOWN_V2) IN
         [i EXCEPT !.read = r.read \o i.read]

NoTelegram == [token |-> None, chat_id |-> None, parse_mode |-> None]

-----------------------------------------------------------------------------
(* Inputs *)

EnvTokens == {None, "", "tok-env"}
EnvChats == {None, "chat-env"}
\* the command line constructs Telegram() without arguments
ArgTokens == IF caller = "main" THEN {None} ELSE {None, "", "tok-arg"}
ArgChats == IF caller = "main" THEN {None} ELSE {None, "chat-arg"}
ConstructModes == IF caller = "main" THEN {MARKDOWN_V2} ELSE {MARKDOWN_V2, NONE}
SectionNames == {"Default", "Work", "Missing"}
CustomArgs == {None, CustomPath}

-----------------------------------------------------------------------------
(* Actions: construction *)

Finish(op, args, i) ==
    /\ last' = [op |-> op, args |-> args, raised |-> i.raised]
    /\ reads' = i.read
    /\ phase' = IF i.raised = NoError THEN "ready" ELSE "failed"
    /\ tg' = IF i.raised = NoError
             THEN [token |-> i.token, chat_id |-> i.chat_id, parse_mode |-> i.parse_mode]
             ELSE NoTelegram
    /\ UNCHANGED <<TOKEN, CHAT_ID, disk, handles, wire, returned, caller, calls, verbose, stdout>>

\* telegram = Telegram(token, chat_id, parse_mode)
Construct ==
    /\ phase = "start"
    /\ \E token \in ArgTokens, chat_id \in ArgChats, parse_mode \in ConstructModes :
         Finish("init", [token |-> token, chat_id |-> chat_id, parse_mode |-> parse_mode],
                Telegram_init(disk, TOKEN, CHAT_ID, token, chat_id, parse_mode))

\* telegram = Telegram.load(name, config_file)
Load ==
    /\ phase = "start"
    /\ \E name \in SectionNames, config_file \in CustomArgs :
         Finish("load", [name |-> name, config_file |-> config_file],
                Telegram_load(disk, TOKEN, CHAT_ID, name, config_file))

InitCommon ==
    /\ phase = "start"
    /\ tg = NoTelegram
    /\ last = [op |-> "start", args |-> << >>, raised |-> NoError]
    /\ reads = << >>
    /\ handles = {}
    /\ wire = << >>
    /\ returned = << >>
    /\ calls = 0
    /\ stdout = << >>

\* Credential resolution against every environment and file system
InitConfig ==
    /\ TOKEN \in EnvTokens
    /\ CHAT_ID \in EnvChats
    /\ disk \in Disks(Shapes)
    /\ caller = "library"
    /\ verbose = FALSE
    /\ InitCommon

NextConfig == Construct \/ Load

SpecConfig == InitConfig /\ [][NextConfig]_vars

-----------------------------------------------------------------------------
(* Formatting, src/tgsend.py:40-47 and 105-143 *)

\* Telegram._icons; each glyph is written as its code point
icons == [warn |-> "U+26A0", alert |-> "U+1F198", info |-> "U+1F4CB",
          error |-> "U+274C", success |-> "U+2705", no |-> ""]

format_bold(self, text, parse_mode) ==
    LET pm == Or(parse_mode, self.parse_mode) IN
    IF pm = HTML THEN "<b>" \o text \o "</b>"
    ELSE IF pm = MARKDOWN \/ pm = MARKDOWN_V2 THEN "*" \o text \o "*"
    ELSE text

\* The grave accent (U+0060), which a TLA+ string cannot hold
Grave == "(U+0060)"

format_fixed(self, text, parse_mode) ==
    LET pm == Or(parse_mode, self.parse_mode) IN
    IF pm = HTML THEN "<code>" \o text \o "</code>"
    ELSE IF pm = MARKDOWN \/ pm = MARKDOWN_V2 THEN Grave \o text \o Grave
    ELSE text

\* Telegram._text
text_no_separator(self, text, title, parse_mode, icon) ==
    icon \o " " \o (IF Truthy(title) THEN format_bold(self, title, parse_mode) ELSE "") \o text

text_(self, text, title, parse_mode, icon) ==
    LET s == icon \o " " IN
    (IF Truthy(title) THEN s \o format_bold(self, title, parse_mode) \o "\n\n" ELSE s) \o text

to_real_parse_mode(self, parse_mode) ==
    LET pm == Or(parse_mode, self.parse_mode) IN
    IF pm = NONE THEN "" ELSE pm

\* str() of a bool
Str(b) == IF b THEN "True" ELSE "False"

\* int(): an int is modelled by its decimal digits
int(v) == v

\* int(reply_to_message_id) if reply_to_message_id else None
ReplyParamEmpty(reply_to_message_id) ==
    IF Truthy(reply_to_message_id) THEN int(reply_to_message_id) ELSE ""

ReplyParam(reply_to_message_id) ==
    IF Truthy(reply_to_message_id) THEN int(reply_to_message_id) ELSE None

\* json.dumps of a list of strings
RECURSIVE DumpItems(_)
DumpItems(options) ==
    IF options = << >> THEN ""
    ELSE "\"" \o Head(options) \o "\""
         \o (IF Len(options) > 1 THEN ", " ELSE "") \o DumpItems(Tail(options))

json_dumps(options) == "[" \o DumpItems(options) \o "]"

-----------------------------------------------------------------------------
(* The transport (the requests library) and the files of the upload *)

\* What one HTTP exchange can end in
Outcomes == {"ok", "not ok", "bad request", "ConnectionError"}

Response(o) ==
    CASE o = "ok" -> [status_code |-> 200, ok |-> TRUE]
      [] o = "not ok" -> [status_code |-> 200, ok |-> FALSE]
      [] OTHER -> [status_code |-> 400, ok |-> FALSE]

\* The parameters as the HTTP client encodes them into the query string or
\* the form body: a parameter whose value is None is left out, any other
\* value, the empty string included, is sent
Encoded(params) == [k \in {j \in DOMAIN params : params[j] # None} |-> params[k]]

requests_get(url, params) ==
    [verb |-> "GET", url |-> url, params |-> params, sent |-> Encoded(params), files |-> << >>]

requests_post(url, data, files) ==
    [verb |-> "POST", url |-> url, params |-> data, sent |-> Encoded(data), files |-> files]

\* What the caller of the transport gets back: a response, or none when the
\* transport raises
Reply(o) == IF o = "ConnectionError" THEN << >> ELSE <<Response(o)>>

Exchange(req, o) == [req |-> req, reply |-> Reply(o)]

\* The exchanges one call of requests.get / requests.post makes
IssueRetrying(req, o) ==
    IF o = "ok" THEN <<Exchange(req, o)>> ELSE <<Exchange(req, o), Exchange(req, o)>>

Issue(req, o) == <<Exchange(req, o)>>

\* The files open(path, "rb") can open
Readable == {"file.bin", "thumb.jpg"}

\* No send operation closes what it opened.  After a return nothing refers
\* to the file objects any more, and whether the interpreter has finalized
\* (and so closed) them by then is up to the interpreter.
AfterReturn(opened) == {opened, {}}

\* While an exception propagates, its traceback refers to the frame that
\* holds the file objects: they stay open.
AfterRaise(opened) == opened

Range(f) == {f[k] : k \in DOMAIN f}

-----------------------------------------------------------------------------
(* Send operations: outcomes *)

\* The number of send operations a script calls on its dispatcher
MaxSends == 2

\* The number of send operations the caller makes
Budget == IF caller = "script" THEN MaxSends ELSE 1

\* One more send operation has ended; the caller goes on if it has calls left
Called ==
    /\ calls' = calls + 1
    /\ phase' = IF calls + 1 < Budget THEN "ready" ELSE "done"

\* The operation raises exc before any request; opened are the files it
\* had opened by then
Raise(op, args, exc, opened) ==
    /\ last' = [op |-> op, args |-> args, raised |-> exc]
    /\ wire' = << >>
    /\ returned' = << >>
    /\ handles' = handles \cup AfterRaise(opened)
    /\ Called
    /\ UNCHANGED <<TOKEN, CHAT_ID, disk, tg, reads, caller, verbose, stdout>>

\* The operation hands req to the transport and returns what it returns
Transport(op, args, req) ==
    \E o \in Outcomes :
        /\ wire' = Issue(req, o)
        /\ IF o = "ConnectionError"
           THEN /\ last' = [op |-> op, args |-> args, raised |-> "ConnectionError"]
                /\ returned' = << >>
                /\ handles' = handles \cup AfterRaise(Range(req.files))
           ELSE /\ last' = [op |-> op, args |-> args, raised |-> NoError]
                /\ returned' = Reply(o)
                /\ \E left \in AfterReturn(Range(req.files)) : handles' = handles \cup left
        /\ Called
        /\ UNCHANGED <<TOKEN, CHAT_ID, disk, tg, reads, caller, verbose, stdout>>

\* if not self.chat_id and not chat_id
NoChat(self, chat_id) == ~Truthy(self.chat_id) /\ ~Truthy(chat_id)

Url(self, method) == BOT_API_URL \o self.token \o method

-----------------------------------------------------------------------------
(* Inputs of the send operations.  A script, which calls several operations
   in a row, varies the chat id, the files and the kind of operation only;
   the command line passes what its options can express *)

Script == caller = "script"

\* The command line passes --id (default "") as chat_id and --format as
\* parse_mode, and no reply id, duration, size or performer
Cli == caller = "main"

Texts == {"body"}
Captions == IF Script THEN {"body"} ELSE {None, "body"}
Titles == IF Script THEN {"Title"} ELSE {"", "Title"}
\* the command line passes "" when --id is not given
ChatArgs ==
    IF Script THEN {None, "chat-call"}
    ELSE IF Cli THEN {"", "chat-call"}
    ELSE {None, "", "chat-call"}
ParseArgs == IF Script THEN {None} ELSE IF Cli THEN ParseMode ELSE {None} \cup ParseMode
Levels == IF Script THEN {"no"} ELSE {"no", "warn"}
IconArgs == IF Script THEN {""} ELSE {"", "!"}
ReplyArgs == IF Script \/ Cli THEN {None} ELSE {None, "42"}
MediaPaths == {"file.bin", "missing.bin"}
ThumbArgs == IF Script THEN {None, "thumb.jpg"} ELSE {None, "thumb.jpg", "missing.jpg"}
\* The fields only some kinds have, all left out or all given
Extras ==
    {[duration |-> None, width |-> None, height |-> None, performer |-> None]}
    \cup (IF Script \/ Cli THEN {}
          ELSE {[duration |-> "5", width |-> "320", height |-> "240", performer |-> "Band"]})

Silents == IF Script THEN {FALSE} ELSE BOOLEAN
\* Every other flag
Flags == IF Script THEN {FALSE} ELSE BOOLEAN
Latitudes == {"48.85"}
Longitudes == {"2.35"}
Addresses == {"1 Main St"}
Phones == {"+100"}
FirstNames == {"Ann"}
ContactExtras ==
    {[last_name |-> None, vcard |-> None]}
    \cup (IF Script THEN {} ELSE {[last_name |-> "Lee", vcard |-> "BEGIN:VCARD"]})
Questions == {"Q?"}
PollOptions == IF Script THEN {<<"A", "B">>} ELSE {<<"A", "B">>, <<"A", "B", "C">>}
PollTypes == {"regular"}
PollExtras ==
    {[correct_option_id |-> None, explanation |-> None, explanation_parse_mode |-> None,
      open_period |-> None, close_date |-> None]}
    \cup (IF Script THEN {}
          ELSE {[correct_option_id |-> "1", explanation |-> "because",
                 explanation_parse_mode |-> HTML, open_period |-> "60",
                 close_date |-> "1700000000"]})

(* Telegram.send_message, src/tgsend.py:145-172 *)
send_message ==
    /\ phase = "ready"
    /\ \E text \in Texts, title \in Titles, chat_id \in ChatArgs, parse_mode \in ParseArgs,
          level \in Levels, icon \in IconArgs, silent \in Silents, fixed \in Flags,
          disable_web_page_preview \in Flags, reply_to_message_id \in ReplyArgs :
        LET args == [text |-> text, title |-> title, chat_id |-> chat_id,
                     parse_mode |-> parse_mode, level |-> level, icon |-> icon,
                     silent |-> silent, fixed |-> fixed,
                     disable_web_page_preview |-> disable_web_page_preview,
                     reply_to_message_id |-> reply_to_message_id]
            s0 == text_(tg, text, title, Or(parse_mode, tg.parse_mode),
                        IF Truthy(icon) THEN icon ELSE icons[level])
            s  == IF fixed THEN format_fixed(tg, s0, parse_mode) ELSE s0
            params == [chat_id |-> Or(chat_id, tg.chat_id),
                       parse_mode |-> to_real_parse_mode(tg, parse_mode),
                       text |-> s,
                       disable_notification |-> Str(silent),
                       disable_web_page_preview |-> Str(disable_web_page_preview),
                       reply_to_message_id |-> ReplyParam(reply_to_message_id)]
        IN IF NoChat(tg, chat_id)
           THEN Raise("send_message", args, "RuntimeError", {})
           ELSE Transport("send_message", args, requests_get(Url(tg, "/sendMessage"), params))

(* Telegram._send_file_helper, src/tgsend.py:174-191 *)
send_file_helper(op, args, chat_id, method, files, text, title, p_m, lvl, icon, silent, reply_to_message_id, kwargs) ==
    LET text_title == IF method # "/sendAudio" THEN title ELSE ""
        s == text_(tg, Or(text, ""), text_title, Or(p_m, tg.parse_mode),
                   IF Truthy(icon) THEN icon ELSE icons[lvl])
        params == [chat_id |-> Or(chat_id, tg.chat_id),
                   parse_mode |-> to_real_parse_mode(tg, p_m),
                   caption |-> s,
                   disable_notification |-> Str(silent),
                   reply_to_message_id |-> ReplyParam(reply_to_message_id)]
        titled == IF method = "/sendAudio" THEN ("title" :> title) @@ params ELSE params
    IN IF NoChat(tg, chat_id)
       THEN Raise(op, args, "RuntimeError", Range(files))
       ELSE Transport(op, args, requests_post(Url(tg, method), kwargs @@ titled, files))

\* The open() calls of a media operation, in order: the media file, then the
\* thumbnail if one is given.  The result is the files dict, or the files
\* opened before the open() that failed.
OpenFiles(field, path, thumb) ==
    IF path \notin Readable THEN [failed |-> TRUE, files |-> << >>]
    ELSE IF Truthy(thumb) /\ thumb \notin Readable THEN [failed |-> TRUE, files |-> (field :> path)]
    ELSE IF Truthy(thumb) THEN [failed |-> FALSE, files |-> ("thumb" :> thumb) @@ (field :> path)]
    ELSE [failed |-> FALSE, files |-> (field :> path)]

(* Telegram.send_photo, src/tgsend.py:193-209 *)
send_photo ==
    /\ phase = "ready"
    /\ \E photo \in MediaPaths,
          text \in Captions, title \in Titles, chat_id \in ChatArgs, parse_mode \in ParseArgs,
          level \in Levels, icon \in IconArgs, silent \in Silents,
          reply_to_message_id \in ReplyArgs :
        LET args == [photo |-> photo, text |-> text, title |-> title, chat_id |-> chat_id,
                     parse_mode |-> parse_mode, level |-> level, icon |-> icon,
                     silent |-> silent, reply_to_message_id |-> reply_to_message_id]
            opened == OpenFiles("photo", photo, None)
            kwargs == << >>
        IN IF opened.failed
           THEN Raise("send_photo", args, "FileNotFoundError", Range(opened.files))
           ELSE send_file_helper("send_photo", args, chat_id, "/sendPhoto", opened.files, text, title,
                                 parse_mode, level, icon, silent, reply_to_message_id, kwargs)

(* Telegram.send_document, src/tgsend.py:211-230 *)
send_document ==
    /\ phase = "ready"
    /\ \E document \in MediaPaths, thumb \in ThumbArgs,
          text \in Captions, title \in Titles, chat_id \in ChatArgs, parse_mode \in ParseArgs,
          level \in Levels, icon \in IconArgs, silent \in Silents,
          reply_to_message_id \in ReplyArgs :
        LET args == [document |-> document, thumb |-> thumb, text |-> text, title |-> title,
                     chat_id |-> chat_id, parse_mode |-> parse_mode, level |-> level,
                     icon |-> icon, silent |-> silent,
                     reply_to_message_id |-> reply_to_message_id]
            opened == OpenFiles("document", document, thumb)
            kwargs == << >>
        IN IF opened.failed
           THEN Raise("send_document", args, "FileNotFoundError", Range(opened.files))
           ELSE send_file_helper("send_document", args, chat_id, "/sendDocument", opened.files, text, title,
                                 parse_mode, level, icon, silent, reply_to_message_id, kwargs)

(* Telegram.send_audio, src/tgsend.py:232-259 *)
send_audio ==
    /\ phase = "ready"
    /\ \E audio \in MediaPaths, thumb \in ThumbArgs, x \in Extras,
          text \in Captions, title \in Titles, chat_id \in ChatArgs, parse_mode \in ParseArgs,
          level \in Levels, icon \in IconArgs, silent \in Silents,
          reply_to_message_id \in ReplyArgs :
        LET args == [audio |-> audio, thumb |-> thumb, text |-> text, title |-> title,
                     chat_id |-> chat_id, parse_mode |-> parse_mode, level |-> level,
                     icon |-> icon, silent |-> silent, duration |-> x.duration,
                     performer |-> x.performer,
                     reply_to_message_id |-> reply_to_message_id]
            opened == OpenFiles("audio", audio, thumb)
            kwargs == [duration |-> x.duration, performer |-> x.performer]
        IN IF opened.failed
           THEN Raise("send_audio", args, "FileNotFoundError", Range(opened.files))
           ELSE send_file_helper("send_audio", args, chat_id, "/sendAudio", opened.files, text, title,
                                 parse_mode, level, icon, silent, reply_to_message_id, kwargs)

(* Telegram.send_video, src/tgsend.py:261-292 *)
send_video ==
    /\ phase = "ready"
    /\ \E video \in MediaPaths, thumb \in ThumbArgs, x \in Extras, supports_streaming \in Flags,
          text \in Captions, title \in Titles, chat_id \in ChatArgs, parse_mode \in ParseArgs,
          level \in Levels, icon \in IconArgs, silent \in Silents,
          reply_to_message_id \in ReplyArgs :
        LET args == [video |-> video, thumb |-> thumb, text |-> text, title |-> title,
                     chat_id |-> chat_id, parse_mode |-> parse_mode, level |-> level,
                     icon |-> icon, silent |-> silent, duration |-> x.duration,
                     width |-> x.width, height |-> x.height,
                     supports_streaming |-> supports_streaming,
                     reply_to_message_id |-> reply_to_message_id]
            opened == OpenFiles("video", video, thumb)
            kwargs == [duration |-> x.duration, width |-> x.width, height |-> x.height,
                       supports_streaming |-> Str(supports_streaming)]
        IN IF opened.failed
           THEN Raise("send_video", args, "FileNotFoundError", Range(opened.files))
           ELSE send_file_helper("send_video", args, chat_id, "/sendVideo", opened.files, text, title,
                                 parse_mode, level, icon, silent, reply_to_message_id, kwargs)

(* Telegram.send_animation, src/tgsend.py:294-333 *)
send_animation ==
    /\ phase = "ready"
    /\ \E animation \in MediaPaths, thumb \in ThumbArgs, x \in Extras,
          text \in Captions, title \in Titles, chat_id \in ChatArgs, parse_mode \in ParseArgs,
          level \in Levels, icon \in IconArgs, silent \in Silents,
          reply_to_message_id \in ReplyArgs :
        LET args == [animation |-> animation, thumb |-> thumb, text |-> text, title |-> title,
                     chat_id |-> chat_id, parse_mode |-> parse_mode, level |-> level,
                     icon |-> icon, silent |-> silent, duration |-> x.duration,
                     width |-> x.width, height |-> x.height,
                     reply_to_message_id |-> reply_to_message_id]
            opened == OpenFiles("animation", animation, thumb)
            kwargs == [duration |-> x.duration, width |-> x.width, height |-> x.height]
        IN IF opened.failed
           THEN Raise("send_animation", args, "FileNotFoundError", Range(opened.files))
           ELSE send_file_helper("send_animation", args, chat_id, "/sendAnimation", opened.files, text, title,
                                 parse_mode, level, icon, silent, reply_to_message_id, kwargs)

(* Telegram.send_voice, src/tgsend.py:335-357 *)
send_voice ==
    /\ phase = "ready"
    /\ \E voice \in MediaPaths, x \in Extras,
          text \in Captions, title \in Titles, chat_id \in ChatArgs, parse_mode \in ParseArgs,
          level \in Levels, icon \in IconArgs, silent \in Silents,
          reply_to_message_id \in ReplyArgs :
        LET args == [voice |-> voice, text |-> text, title |-> title, chat_id |-> chat_id,
                     parse_mode |-> parse_mode, level |-> level, icon |-> icon,
                     silent |-> silent, duration |-> x.duration,
                     reply_to_message_id |-> reply_to_message_id]
            opened == OpenFiles("voice", voice, None)
            kwargs == [duration |-> x.duration]
        IN IF opened.failed
           THEN Raise("send_voice", args, "FileNotFoundError", Range(opened.files))
           ELSE send_file_helper("send_voice", args, chat_id, "/sendVoice", opened.files, text, title,
                                 parse_mode, level, icon, silent, reply_to_message_id, kwargs)

(* Telegram.send_location, src/tgsend.py:359-377 *)
send_location ==
    /\ phase = "ready"
    /\ \E latitude \in Latitudes, longitude \in Longitudes, chat_id \in ChatArgs,
          silent \in Silents, reply_to_message_id \in ReplyArgs :
        LET args == [latitude |-> latitude, longitude |-> longitude, chat_id |-> chat_id,
                     silent |-> silent, reply_to_message_id |-> reply_to_message_id]
            params == [chat_id |-> Or(chat_id, tg.chat_id),
                       latitude |-> latitude,
                       longitude |-> longitude,
                       disable_notification |-> Str(silent),
                       reply_to_message_id |-> ReplyParam(reply_to_message_id)]
        IN IF NoChat(tg, chat_id)
           THEN Raise("send_location", args, "RuntimeError", {})
           ELSE Transport("send_location", args, requests_get(Url(tg, "/sendLocation"), params))

(* Telegram.send_venue, src/tgsend.py:379-401 *)
send_venue ==
    /\ phase = "ready"
    /\ \E latitude \in Latitudes, longitude \in Longitudes, title \in Titles,
          address \in Addresses, chat_id \in ChatArgs, silent \in Silents,
          reply_to_message_id \in ReplyArgs :
        LET args == [latitude |-> latitude, longitude |-> longitude, title |-> title,
                     address |-> address, chat_id |-> chat_id, silent |-> silent,
                     reply_to_message_id |-> reply_to_message_id]
            params == [chat_id |-> Or(chat_id, tg.chat_id),
                       latitude |-> latitude,
                       longitude |-> longitude,
                       title |-> title,
                       address |-> address,
                       disable_notification |-> Str(silent),
                       reply_to_message_id |-> ReplyParam(reply_to_message_id)]
        IN IF NoChat(tg, chat_id)
           THEN Raise("send_venue", args, "RuntimeError", {})
           ELSE Transport("send_venue", args, requests_get(Url(tg, "/sendVenue"), params))

(* Telegram.send_contact, src/tgsend.py:403-425 *)
send_contact ==
    /\ phase = "ready"
    /\ \E phone_number \in Phones, first_name \in FirstNames, c \in ContactExtras,
          chat_id \in ChatArgs, silent \in Silents, reply_to_message_id \in ReplyArgs :
        LET args == [phone_number |-> phone_number, first_name |-> first_name,
                     last_name |-> c.last_name, vcard |-> c.vcard, chat_id |-> chat_id,
                     silent |-> silent, reply_to_message_id |-> reply_to_message_id]
            params == [chat_id |-> Or(chat_id, tg.chat_id),
                       phone_number |-> phone_number,
                       first_name |-> first_name,
                       last_name |-> c.last_name,
                       vcard |-> c.vcard,
                       disable_notification |-> Str(silent),
                       reply_to_message_id |-> ReplyParam(reply_to_message_id)]
        IN IF NoChat(tg, chat_id)
           THEN Raise("send_contact", args, "RuntimeError", {})
           ELSE Transport("send_contact", args, requests_get(Url(tg, "/sendContact"), params))

(* Telegram.send_poll, src/tgsend.py:427-463 *)
send_poll ==
    /\ phase = "ready"
    /\ \E question \in Questions, options \in PollOptions, chat_id \in ChatArgs,
          is_anonymous \in Flags, type \in PollTypes, allows_multiple_answers \in Flags,
          q \in PollExtras, is_closed \in Flags, silent \in Silents,
          reply_to_message_id \in ReplyArgs :
        LET args == [question |-> question, options |-> options, chat_id |-> chat_id,
                     is_anonymous |-> is_anonymous, type |-> type,
                     allows_multiple_answers |-> allows_multiple_answers,
                     correct_option_id |-> q.correct_option_id,
                     explanation |-> q.explanation,
                     explanation_parse_mode |-> q.explanation_parse_mode,
                     open_period |-> q.open_period, close_date |-> q.close_date,
                     is_closed |-> is_closed, silent |-> silent,
                     reply_to_message_id |-> reply_to_message_id]
            params == [chat_id |-> Or(chat_id, tg.chat_id),
                       question |-> question,
                       options |-> json_dumps(options),
                       is_anonymous |-> Str(is_anonymous),
                       type |-> type,
                       allows_multiple_answers |-> Str(allows_multiple_answers),
                       correct_option_id |-> q.correct_option_id,
                       explanation |-> q.explanation,
                       explanation_parse_mode |-> q.explanation_parse_mode,
                       open_period |-> q.open_period,
                       close_date |-> q.close_date,
                       is_closed |-> Str(is_closed),
                       disable_notification |-> Str(silent),
                       reply_to_message_id |-> ReplyParam(reply_to_message_id)]
        IN IF NoChat(tg, chat_id)
           THEN Raise("send_poll", args, "RuntimeError", {})
           ELSE Transport("send_poll", args, requests_get(Url(tg, "/sendPoll"), params))

(* Telegram.send_sticker, src/tgsend.py:465-481 *)
send_sticker ==
    /\ phase = "ready"
    /\ \E sticker \in MediaPaths, chat_id \in ChatArgs, silent \in Silents,
          reply_to_message_id \in ReplyArgs :
        LET args == [sticker |-> sticker, chat_id |-> chat_id, silent |-> silent,
                     reply_to_message_id |-> reply_to_message_id]
            params == [chat_id |-> Or(chat_id, tg.chat_id),
                       disable_notification |-> Str(silent),
                       reply_to_message_id |-> ReplyParam(reply_to_message_id)]
            opened == OpenFiles("sticker", sticker, None)
        IN IF NoChat(tg, chat_id)
           THEN Raise("send_sticker", args, "RuntimeError", {})
           ELSE IF opened.failed
           THEN Raise("send_sticker", args, "FileNotFoundError", Range(opened.files))
           ELSE Transport("send_sticker", args,
                          requests_post(Url(tg, "/sendSticker"), params, opened.files))

-----------------------------------------------------------------------------
(* The program: one dispatcher is constructed, then one send operation runs *)

\* No environment values and no config files
Init ==
    /\ TOKEN = None
    /\ CHAT_ID = None
    /\ disk = << >>
    /\ caller = "library"
    /\ verbose = FALSE
    /\ InitCommon

Send ==
    \/ send_message
    \/ send_photo
    \/ send_document
    \/ send_audio
    \/ send_video
    \/ send_animation
    \/ send_voice
    \/ send_location
    \/ send_venue
    \/ send_contact
    \/ send_poll
    \/ send_sticker

Next == Construct \/ Send

Spec == Init /\ [][Next]_vars

(* main, src/tgsend.py:484-629 *)

\* Line 626: failure = response.status_code != 200 or not response.json()["ok"]
FailureStatusOnly(response) == response.status_code # 200

Failure(response) == response.status_code # 200 \/ ~response.ok

\* response.text, the body of the response
Text(response) == "{\"ok\": " \o (IF response.ok THEN "true" ELSE "false") \o "}"

\* Lines 626-629, reached when the send operation returned a response
main_report ==
    /\ caller = "main"
    /\ phase = "done"
    /\ returned # << >>
    /\ LET response == returned[1]
           failure == Failure(response)
       IN stdout' = IF verbose \/ failure
                    THEN <<"Status code: ", response.status_code, Text(response)>>
                    ELSE << >>
    /\ phase' = "exit"
    /\ UNCHANGED <<TOKEN, CHAT_ID, disk, tg, last, reads, handles, wire, returned, caller, calls,
                   verbose>>

\* The send operations main chooses between, lines 538-625
MainSend ==
    \/ send_photo
    \/ send_document
    \/ send_audio
    \/ send_video
    \/ send_animation
    \/ send_voice
    \/ send_location
    \/ send_sticker
    \/ send_message

\* The command line: with or without the environment values, with or without
\* a system-wide config file
InitMain ==
    /\ TOKEN \in {None, "tok-env"}
    /\ CHAT_ID \in EnvChats
    /\ disk \in {d \in Disks({"both"}) : DOMAIN d \subseteq {CONFIG_FILE}}
    /\ caller = "main"
    /\ verbose \in BOOLEAN
    /\ InitCommon

NextMain == Construct \/ Load \/ MainSend \/ main_report

SpecMain == InitMain /\ [][NextMain]_vars

\* A script: one dispatcher, then MaxSends send operations on it
InitScript ==
    /\ TOKEN = None
    /\ CHAT_ID = None
    /\ disk = << >>
    /\ caller = "script"
    /\ verbose = FALSE
    /\ InitCommon

SpecScript == InitScript /\ [][Next]_vars

-----------------------------------------------------------------------------
(* Credential resolution: what the claims expect, stated from the file system *)

HomeFile == "/home/user/tgsend.conf"
EtcFile == "/etc/tgsend.conf"
CustomFile == "/cwd/my.conf"

\* The first existing candidate, in the documented order; None if none exists
ExpectedFile(custom) ==
    IF custom # None /\ CustomFile \in DOMAIN disk THEN CustomFile
    ELSE IF HomeFile \in DOMAIN disk THEN HomeFile
    ELSE IF EtcFile \in DOMAIN disk THEN EtcFile
    ELSE None

\* The value of key in section name of file f; None if file, section or key is missing
KeyOf(f, name, key) ==
    IF f # None /\ f \in DOMAIN disk /\ name \in DOMAIN disk[f] /\ key \in DOMAIN disk[f][name]
    THEN disk[f][name][key]
    ELSE None

DefaultFileToken == KeyOf(ExpectedFile(None), "Default", "BotToken")
DefaultFileChat == KeyOf(ExpectedFile(None), "Default", "ChatID")

\* C1: default construction takes the token from the explicit argument, else
\* the environment, else the Default section's BotToken; with no token at any
\* level it raises RuntimeError, and a dispatcher never holds an empty token.
C1_TokenPrecedence ==
    /\ phase = "ready" => Truthy(tg.token)
    /\ last.op = "init" =>
         LET expected == Or(last.args.token, Or(TOKEN, DefaultFileToken)) IN
         IF Truthy(expected)
         THEN phase = "ready" /\ tg.token = expected
         ELSE phase = "failed" /\ last.raised = "RuntimeError"

\* The token came from the config file while a chat id came from the environment
C1_Witness ==
    /\ last.op = "init" /\ phase = "ready"
    /\ last.args.token = None /\ TOKEN = None
    /\ tg.token = "tok-home-Default"
    /\ EtcFile \in DOMAIN disk

\* C2 (as claimed): with no explicit and no environment chat id, the chat id
\* of a constructed dispatcher is the Default section's ChatID, wherever the
\* token came from.
C2_ChatFromFileAlways ==
    (/\ last.op = "init" /\ phase = "ready"
     /\ ~Truthy(last.args.chat_id) /\ ~Truthy(CHAT_ID)
     /\ Truthy(DefaultFileChat))
    => tg.chat_id = DefaultFileChat

\* C3 (as claimed): load takes token and chat id from the named section alone;
\* a section without a ChatID gives a dispatcher without a chat id.
C3_LoadFromFileOnly ==
    (last.op = "load" /\ phase = "ready") =>
        /\ tg.token = KeyOf(reads[1], last.args.name, "BotToken")
        /\ tg.chat_id = KeyOf(reads[1], last.args.name, "ChatID")

\* C4: against a located file, load yields the BotToken of the section called
\* name; with no such section or no BotToken in it, it raises RuntimeError; a
\* missing ChatID alone does not make it fail.
C4_LoadNamedSection ==
    (last.op = "load" /\ reads # << >>) =>
        LET t == KeyOf(reads[1], last.args.name, "BotToken") IN
        IF Truthy(t)
        THEN phase = "ready" /\ tg.token = t
        ELSE phase = "failed" /\ last.raised = "RuntimeError"

\* load("Work") against a file whose Default and Work tokens differ, Work
\* having no ChatID
C4_Witness ==
    /\ last.op = "load" /\ last.args.name = "Work" /\ phase = "ready"
    /\ reads = <<HomeFile>>
    /\ tg.token = "tok-home-Work"
    /\ KeyOf(HomeFile, "Default", "BotToken") = "tok-home-Default"
    /\ KeyOf(HomeFile, "Work", "ChatID") = None

\* C5 (as claimed): with no config file at any candidate path, load raises
\* RuntimeError.
C5_NotFoundIsRuntimeError ==
    (last.op = "load" /\ ExpectedFile(last.args.config_file) = None) =>
        (phase = "failed" /\ last.raised = "RuntimeError")

\* C6: the config reader reads exactly the first existing candidate, in the
\* order custom path (if given), ~/tgsend.conf, /etc/tgsend.conf; a custom
\* path that does not exist falls back to the default paths.  Construction
\* consults the reader, without a custom path, only when it has no token yet.
C6_FirstExistingFileRead ==
    /\ last.op = "load" =>
         LET f == ExpectedFile(last.args.config_file) IN
         reads = IF f = None THEN << >> ELSE <<f>>
    /\ last.op = "init" =>
         LET f == ExpectedFile(None) IN
         reads = IF last.args.token \notin {None, ""} \/ TOKEN \notin {None, ""} \/ f = None
                 THEN << >> ELSE <<f>>

\* A custom path is given but missing, both default files exist: home is read
C6_Witness ==
    /\ last.op = "load" /\ last.args.config_file = CustomPath
    /\ DOMAIN disk = {HomeFile, EtcFile}
    /\ reads = <<HomeFile>>

-----------------------------------------------------------------------------
(* Send operations: what the claims expect, stated from the call's arguments *)

GetOps == {"send_message", "send_location", "send_venue", "send_contact", "send_poll"}
CaptionOps == {"send_photo", "send_document", "send_audio", "send_video", "send_animation",
               "send_voice"}
PostOps == CaptionOps \cup {"send_sticker"}
SendOps == GetOps \cup PostOps

\* The argument that names the file of a file-upload operation
FileArg(op) ==
    CASE op = "send_photo" -> "photo"
      [] op = "send_document" -> "document"
      [] op = "send_audio" -> "audio"
      [] op = "send_video" -> "video"
      [] op = "send_animation" -> "animation"
      [] op = "send_voice" -> "voice"
      [] OTHER -> "sticker"

\* The paths the last operation was asked to upload
AskedPaths ==
    IF last.op \notin PostOps THEN {}
    ELSE {last.args[FileArg(last.op)]}
         \cup (IF "thumb" \in DOMAIN last.args /\ last.args.thumb # None
               THEN {last.args.thumb} ELSE {})

\* Neither a stored chat id nor a call-time override
ChatMissing ==
    /\ tg.chat_id \in {None, ""}
    /\ last.args.chat_id \in {None, ""}

\* C7 (as claimed): a send operation called with no stored chat id and no
\* override raises the "No chat ID specified" RuntimeError, with no request.
C7_NoChatRaisesRuntimeError ==
    (last.op \in SendOps /\ ChatMissing) =>
        (last.raised = "RuntimeError" /\ wire = << >>)

\* C8: a send operation that passes chat-id validation and file opening makes
\* exactly one HTTP exchange, a GET for message, location, venue, contact and
\* poll and a POST for the file uploads, and returns that exchange's response,
\* whatever the response says.
C8_ExactlyOneRequest ==
    (last.op \in SendOps /\ ~ChatMissing /\ AskedPaths \subseteq Readable) =>
        /\ Len(wire) = 1
        /\ wire[1].req.verb = (IF last.op \in GetOps THEN "GET" ELSE "POST")
        /\ returned = wire[1].reply
        /\ (last.raised = NoError) = (wire[1].reply # << >>)

\* A document upload answered by a failure response, which is returned as is
C8_Witness ==
    /\ last.op = "send_document" /\ last.raised = NoError
    /\ Len(wire) = 1
    /\ returned = <<[status_code |-> 400, ok |-> FALSE]>>

\* C9 (as claimed): when a send operation has returned or raised, no file
\* handle is open.
C9_HandlesClosed ==
    phase = "done" => handles = {}

\* The bold rendering of a title in a parse mode
Bold(pm, title) ==
    CASE pm = "html" -> "<b>" \o title \o "</b>"
      [] pm \in {"markdown", "markdownV2"} -> "*" \o title \o "*"
      [] OTHER -> title

\* The fixed-width rendering of a text in a parse mode
Fixed(pm, text) ==
    CASE pm = "html" -> "<code>" \o text \o "</code>"
      [] pm \in {"markdown", "markdownV2"} -> Grave \o text \o Grave
      [] OTHER -> text

\* The text assembled from icon, title and body
Assembled(icon, pm, title, body) ==
    icon \o " " \o (IF title # "" THEN Bold(pm, title) \o "\n\n" ELSE "") \o body

EffectiveMode == IF last.args.parse_mode # None THEN last.args.parse_mode ELSE tg.parse_mode
EffectiveIcon == IF last.args.icon # "" THEN last.args.icon ELSE icons[last.args.level]
Body == IF last.args.text = None THEN "" ELSE last.args.text

\* C10 (as claimed): the text of a message and the caption of every captioned
\* kind, audio included, is icon, space, bold title and blank line when the
\* title is non-empty, then the body.
C10_TitleInEveryCaption ==
    /\ (last.op = "send_message" /\ ~last.args.fixed /\ wire # << >>) =>
         wire[1].req.params.text = Assembled(EffectiveIcon, EffectiveMode, last.args.title, Body)
    /\ (last.op \in CaptionOps /\ wire # << >>) =>
         wire[1].req.params.caption = Assembled(EffectiveIcon, EffectiveMode, last.args.title, Body)

\* C10 (amended): as claimed for message, photo, document, video, animation
\* and voice; the caption of an audio never holds the title, which goes into
\* the request's title parameter; a message sent with fixed set is the
\* assembled text in the mode's fixed-width markup.
C10_CaptionAssembly ==
    /\ (last.op = "send_message" /\ wire # << >>) =>
         LET s == Assembled(EffectiveIcon, EffectiveMode, last.args.title, Body) IN
         wire[1].req.params.text = IF last.args.fixed THEN Fixed(EffectiveMode, s) ELSE s
    /\ (last.op \in CaptionOps \ {"send_audio"} /\ wire # << >>) =>
         wire[1].req.params.caption = Assembled(EffectiveIcon, EffectiveMode, last.args.title, Body)
    /\ (last.op = "send_audio" /\ wire # << >>) =>
         /\ wire[1].req.params.caption = Assembled(EffectiveIcon, EffectiveMode, "", Body)
         /\ wire[1].req.params.title = last.args.title

\* A photo with a title and an explicit icon, in HTML
C10_Witness ==
    /\ last.op = "send_photo" /\ wire # << >>
    /\ last.args.title = "Title" /\ last.args.icon = "!" /\ last.args.parse_mode = "html"
    /\ wire[1].req.params.caption = "! <b>Title</b>\n\nbody"

\* An audio with a title: the caption leaves it out
C10_AudioWitness ==
    /\ last.op = "send_audio" /\ wire # << >>
    /\ last.args.title = "Title" /\ last.args.level = "warn" /\ last.args.icon = ""
    /\ wire[1].req.params.caption = "U+26A0 body"

-----------------------------------------------------------------------------
(* Optional parameters *)

\* The optional fields whose default is None
NoneFields == {"reply_to_message_id", "duration", "width", "height", "performer",
               "last_name", "vcard", "explanation", "open_period", "close_date",
               "correct_option_id"}

\* The caller of the last operation did not supply field k
Unsupplied(k) == k \in DOMAIN last.args /\ last.args[k] = None

\* The last operation takes a parse mode, and the effective one is none
UnderNone == last.op \in CaptionOps \cup {"send_message"} /\ EffectiveMode = "none"

\* The last operation is an audio sent without a title
AudioUntitled == last.op = "send_audio" /\ last.args.title = ""

\* C11 (as claimed): an optional field the caller did not supply, parse_mode
\* under ParseMode.NONE and the title of an untitled audio included, is absent
\* from the request.
C11_UnsuppliedAbsent ==
    wire # << >> =>
        /\ \A k \in NoneFields : Unsupplied(k) => k \notin DOMAIN wire[1].req.sent
        /\ UnderNone => "parse_mode" \notin DOMAIN wire[1].req.sent
        /\ AudioUntitled => "title" \notin DOMAIN wire[1].req.sent

\* C11 (amended): an optional field whose default is None and which the
\* caller did not supply is None in the parameters the operation builds and
\* absent from the request sent, and no parameter is sent with a null value;
\* under ParseMode.NONE parse_mode is sent as the empty string, and so is the
\* title of an untitled audio.
C11_NoneFieldsAbsent ==
    wire # << >> =>
        /\ \A k \in NoneFields : Unsupplied(k) =>
             /\ wire[1].req.params[k] = None
             /\ k \notin DOMAIN wire[1].req.sent
        /\ \A k \in DOMAIN wire[1].req.sent : wire[1].req.sent[k] # None
        /\ \A k \in NoneFields \cap DOMAIN wire[1].req.sent : wire[1].req.sent[k] # ""
        /\ UnderNone =>
             ("parse_mode" \in DOMAIN wire[1].req.sent /\ wire[1].req.sent.parse_mode = "")
        /\ AudioUntitled =>
             ("title" \in DOMAIN wire[1].req.sent /\ wire[1].req.sent.title = "")

\* A video sent with none of its optional fields: they are left out, the
\* streaming flag is sent
C11_Witness ==
    /\ last.op = "send_video" /\ wire # << >>
    /\ last.args.duration = None /\ last.args.reply_to_message_id = None
    /\ DOMAIN wire[1].req.sent =
         {"chat_id", "parse_mode", "caption", "disable_notification", "supports_streaming"}

-----------------------------------------------------------------------------
(* Stored credentials *)

\* C12: a send operation, succeeding or failing, leaves the dispatcher's
\* stored token and chat id as they were, so after any sequence of them they
\* are the values resolved at construction; the chat_id of a call's request
\* is the call's override if one is given, else the stored chat id.
C12_StoredCredentialsKept ==
    /\ [][phase = "ready" => (tg'.token = tg.token /\ tg'.chat_id = tg.chat_id)]_vars
    /\ [](last.op \in SendOps /\ wire # << >> =>
            wire[1].req.params.chat_id =
                (IF last.args.chat_id \notin {None, ""} THEN last.args.chat_id ELSE tg.chat_id))

\* The last of several calls gives no override and its request carries the
\* chat id given at construction
C12_Witness ==
    /\ caller = "script" /\ calls = MaxSends
    /\ last.op = "send_message" /\ last.args.chat_id = None
    /\ tg.chat_id = "chat-arg"
    /\ wire # << >> /\ wire[1].req.params.chat_id = "chat-arg"

-----------------------------------------------------------------------------
(* The command line's report *)

\* C13: once the send operation of the command line has returned a response,
\* status code and body are printed if and only if --verbose was given or the
\* status code is not 200 or the body's ok is false.
C13_PrintsIffVerboseOrFailed ==
    phase = "exit" =>
        LET r == returned[1] IN
        IF verbose \/ r.status_code # 200 \/ r.ok = FALSE
        THEN stdout = <<"Status code: ", r.status_code,
                        IF r.ok THEN "{\"ok\": true}" ELSE "{\"ok\": false}">>
        ELSE stdout = << >>

\* Without --verbose, a 200 response whose ok is false is printed
C13_Witness ==
    /\ phase = "exit" /\ ~verbose
    /\ returned = <<[status_code |-> 200, ok |-> FALSE]>>
    /\ stdout = <<"Status code: ", 200, "{\"ok\": false}">>

====
